---- MODULE Spec2Model ----
(***************************************************************************)
(* The AppleScript bridge of mcp-apple-notes: execute_applescript (the     *)
(* process execution engine), the five query operations built on it, the   *)
(* escaping they apply to caller text and the decoders they apply to the   *)
(* host's output.                                                          *)
(*                                                                         *)
(* Text is a sequence of one-character strings, so that strip, split,      *)
(* replace and startswith are computed character by character as Python    *)
(* computes them.                                                          *)
(***************************************************************************)
EXTENDS Integers, Sequences, FiniteSets, TLC

VARIABLES
    pc,        \* pc[c]: where call c stands in its operation / in execute_applescript
    request,   \* request[c]: the operation called and its arguments
    process,   \* process[c]: the osascript subprocess created for call c
    launches,  \* launches[c]: how many subprocesses call c has created
    engine,    \* engine[c]: the outcomes execute_applescript surfaced to the operation
    reply,     \* reply[c]: the outcomes the operation surfaced to its caller
    input,     \* argument of the pure function under check (escaping, decoders)
    output     \* what the pure function returned for input

vars == <<pc, request, process, launches, engine, reply, input, output>>
callVars == <<pc, request, process, launches, engine, reply>>
pureVars == <<input, output>>

----------------------------------------------------------------------------
\* Bounds of the model.

\* Number of operation calls in flight.
NumCalls == 1

\* Longest standard output of the exhaustive runs of execute_applescript.
MaxOutput == 3

\* Most lines in a result handed to the sequence decoders.
MaxLines == 2

\* Longest note body handed to the most-recent-note decoder.
MaxBody == 3

\* Longest caller text handed to the escaping.
MaxText == 4

Calls == 1..NumCalls

----------------------------------------------------------------------------
\* Characters and Python's str primitives.

CR == "\r"
LF == "\n"
SP == " "
TAB == "\t"
BACKSLASH == "\\"
QUOTE == "\""
PIPE == "|"

\* str.isspace for the characters of the model
IsSpace(ch) == ch \in {SP, TAB, CR, LF}

AllSpace(s) == \A i \in 1..Len(s) : IsSpace(s[i])

\* str.lstrip()
LStrip(s) ==
    IF AllSpace(s) THEN <<>>
    ELSE LET first == CHOOSE i \in 1..Len(s) :
                          /\ ~IsSpace(s[i])
                          /\ \A j \in 1..(i - 1) : IsSpace(s[j])
         IN SubSeq(s, first, Len(s))

\* str.rstrip()
RStrip(s) ==
    IF AllSpace(s) THEN <<>>
    ELSE LET last == CHOOSE i \in 1..Len(s) :
                         /\ ~IsSpace(s[i])
                         /\ \A j \in (i + 1)..Len(s) : IsSpace(s[j])
         IN SubSeq(s, 1, last)

\* str.strip(): whitespace is removed at both ends
Strip(s) == RStrip(LStrip(s))

\* str.startswith(prefix)
StartsWith(s, prefix) ==
    /\ Len(s) >= Len(prefix)
    /\ SubSeq(s, 1, Len(prefix)) = prefix

\* s[n:]
DropFirst(s, n) == SubSeq(s, n + 1, Len(s))

\* str.find(sep): index of the leftmost occurrence of sep in s, 0 when there is none
Find(s, sep) ==
    LET hits == {i \in 1..(Len(s) - Len(sep) + 1) : SubSeq(s, i, i + Len(sep) - 1) = sep}
    IN IF hits = {} THEN 0
       ELSE CHOOSE i \in hits : \A j \in hits : i <= j

RECURSIVE SplitMax(_, _, _)
\* str.split(sep, maxsplit): leftmost, non-overlapping occurrences; maxsplit < 0 is no limit
SplitMax(s, sep, maxsplit) ==
    LET at == Find(s, sep)
    IN IF at = 0 \/ maxsplit = 0 THEN <<s>>
       ELSE <<SubSeq(s, 1, at - 1)>>
            \o SplitMax(SubSeq(s, at + Len(sep), Len(s)), sep, maxsplit - 1)

\* str.split(sep)
Split(s, sep) == SplitMax(s, sep, -1)

RECURSIVE Join(_, _)
\* sep.join(parts)
Join(parts, sep) ==
    IF parts = <<>> THEN <<>>
    ELSE IF Len(parts) = 1 THEN parts[1]
    ELSE parts[1] \o sep \o Join(Tail(parts), sep)

\* str.replace(old, new)
Replace(s, old, new) == Join(Split(s, old), new)

UpperCase == <<"A", "B", "C", "D", "E", "F", "G", "H", "I", "J", "K", "L", "M",
               "N", "O", "P", "Q", "R", "S", "T", "U", "V", "W", "X", "Y", "Z">>
LowerCase == <<"a", "b", "c", "d", "e", "f", "g", "h", "i", "j", "k", "l", "m",
               "n", "o", "p", "q", "r", "s", "t", "u", "v", "w", "x", "y", "z">>

\* str.lower()
Lower(s) ==
    [i \in 1..Len(s) |->
        IF \E k \in 1..26 : UpperCase[k] = s[i]
        THEN LowerCase[CHOOSE k \in 1..26 : UpperCase[k] = s[i]]
        ELSE s[i]]

\* All texts over an alphabet, of at most n characters
RECURSIVE Texts(_, _)
Texts(alphabet, n) ==
    IF n = 0 THEN {<<>>}
    ELSE LET shorter == Texts(alphabet, n - 1)
         IN shorter \cup {Append(t, ch) : t \in shorter, ch \in alphabet}

Digits == <<"0", "1", "2", "3", "4", "5", "6", "7", "8", "9">>

\* The characters of the model in code point order: Python compares str by code point
CodePoints == <<TAB, LF, CR, SP, QUOTE, "-", "/">> \o Digits \o <<":">>
              \o UpperCase \o <<BACKSLASH>> \o LowerCase \o <<PIPE>>

Ord(ch) == CHOOSE k \in 1..Len(CodePoints) : CodePoints[k] = ch

\* s < t for two str
StrLess(s, t) ==
    \E i \in 1..(Len(t)) :
        /\ i <= Len(s) + 1
        /\ \A j \in 1..(i - 1) : s[j] = t[j]
        /\ \/ i = Len(s) + 1
           \/ i <= Len(s) /\ Ord(s[i]) < Ord(t[i])

----------------------------------------------------------------------------
\* The wire format shared by the compiled scripts and the decoders.

DELIM == <<"|", "|", "|">>
ERROR_SENTINEL == <<"e", "r", "r", "o", "r", ":">>
SUCCESS_PREFIX == <<"s", "u", "c", "c", "e", "s", "s", ":">>

----------------------------------------------------------------------------
\* Identifier codec (note_id_utils.py is not among the sources): the short key is
\* the trailing path segment of the host's identifier, "" when there is none.

ExtractPrimaryKey(full_id) ==
    LET segments == Split(full_id, <<"/">>)
    IN IF Len(segments) < 2 THEN <<>> ELSE segments[Len(segments)]

----------------------------------------------------------------------------
\* Result decoders.

NoteDict(parts) ==
    [note_id |-> ExtractPrimaryKey(parts[2]),
     name |-> parts[1],
     folder |-> parts[3],
     creation_date |-> parts[4],
     modification_date |-> parts[5]]

SearchDict(parts) ==
    [note_id |-> ExtractPrimaryKey(parts[2]),
     name |-> parts[1],
     folder |-> parts[3],
     matched_keyword |-> parts[4]]

RECURSIVE NoteDictsAbortOnShort(_)
\* The loop, had a short line ended the decoding instead of being skipped.
NoteDictsAbortOnShort(lines) ==
    IF lines = <<>> THEN <<>>
    ELSE LET line == Strip(Head(lines))
             parts == Split(line, DELIM)
         IN IF line = <<>> THEN NoteDictsAbortOnShort(Tail(lines))
            ELSE IF Len(parts) < 5 THEN <<>>
            ELSE <<NoteDict(parts)>> \o NoteDictsAbortOnShort(Tail(lines))

RECURSIVE NoteDictsOf(_)
\* The loop body shared by the three five-field decoders: strip the line, skip
\* it when empty or short, else append its dict.
NoteDictsOf(lines) ==
    IF lines = <<>> THEN <<>>
    ELSE LET line == Strip(Head(lines))
             parts == Split(line, DELIM)
         IN IF line = <<>> \/ Len(parts) < 5
            THEN NoteDictsOf(Tail(lines))
            ELSE <<NoteDict(parts)>> \o NoteDictsOf(Tail(lines))

\* ListNotesOperations._parse_notes_list
ParseNotesList(result) ==
    IF Strip(result) = <<>> THEN <<>>
    ELSE NoteDictsOf(Split(Strip(result), <<CR>>))

\* FindNotesByTitleOperations._parse_results
ParseTitleResults(result) ==
    IF result = <<>> \/ Strip(result) = <<>> THEN <<>>
    ELSE NoteDictsOf(Split(Strip(result), <<CR>>))

\* FindNotesByDateOperations._parse_results
ParseDateResults(result) ==
    IF result = <<>> \/ Strip(result) = <<>> THEN <<>>
    ELSE NoteDictsOf(Split(Replace(Replace(Strip(result), <<CR, LF>>, <<LF>>),
                                   <<CR>>, <<LF>>),
                           <<LF>>))

RECURSIVE SearchDictsOf(_)
SearchDictsOf(lines) ==
    IF lines = <<>> THEN <<>>
    ELSE LET line == Strip(Head(lines))
             parts == Split(line, DELIM)
         IN IF line = <<>> \/ Len(parts) < 4
            THEN SearchDictsOf(Tail(lines))
            ELSE IF ExtractPrimaryKey(parts[2]) # <<>> /\ parts[1] # <<>>
            THEN <<SearchDict(parts)>> \o SearchDictsOf(Tail(lines))
            ELSE SearchDictsOf(Tail(lines))

\* SearchNotesOperations._parse_search_results
ParseSearchResults(result) ==
    IF result = <<>> \/ Strip(result) = <<>> THEN <<>>
    ELSE SearchDictsOf(Split(Strip(result), <<CR>>))

NoNote == [note_id |-> <<>>, name |-> <<>>, folder |-> <<>>, creation_date |-> <<>>,
           modification_date |-> <<>>, body |-> <<>>]

\* _parse_result, had the split no limit: content.split("|||")
ParseResultUnlimitedSplit(result) ==
    IF ~StartsWith(result, SUCCESS_PREFIX)
    THEN [raised |-> "Unexpected result format", note |-> NoNote]
    ELSE LET parts == Split(DropFirst(result, 8), DELIM)
         IN IF Len(parts) < 6
            THEN [raised |-> "Incomplete result from AppleScript", note |-> NoNote]
            ELSE [raised |-> "",
                  note |-> [note_id |-> ExtractPrimaryKey(parts[2]),
                            name |-> parts[1],
                            folder |-> parts[3],
                            creation_date |-> parts[4],
                            modification_date |-> parts[5],
                            body |-> parts[6]]]

\* GetMostRecentNoteOperations._parse_result: the dict, or the RuntimeError raised
ParseResult(result) ==
    IF ~StartsWith(result, SUCCESS_PREFIX)
    THEN [raised |-> "Unexpected result format", note |-> NoNote]
    ELSE LET content == DropFirst(result, 8)
             parts == SplitMax(content, DELIM, 5)
         IN IF Len(parts) < 6
            THEN [raised |-> "Incomplete result from AppleScript", note |-> NoNote]
            ELSE [raised |-> "",
                  note |-> [note_id |-> ExtractPrimaryKey(parts[2]),
                            name |-> parts[1],
                            folder |-> parts[3],
                            creation_date |-> parts[4],
                            modification_date |-> parts[5],
                            body |-> parts[6]]]

RECURSIVE SortNewestFirst(_, _)
\* notes.sort(key=lambda n: n.get(sort_key, ""), reverse=True): a stable sort,
\* descending by the date text; each note goes behind the notes whose key is
\* not smaller.
SortNewestFirst(notes, sort_key) ==
    IF notes = <<>> THEN <<>>
    ELSE LET n == Len(notes)
             last == notes[n]
             front == SortNewestFirst(SubSeq(notes, 1, n - 1), sort_key)
             keep == {i \in 0..Len(front) :
                         \A j \in 1..i : ~StrLess(front[j][sort_key], last[sort_key])}
             at == CHOOSE i \in keep : \A k \in keep : k <= i
         IN SubSeq(front, 1, at) \o <<last>> \o SubSeq(front, at + 1, Len(front))

----------------------------------------------------------------------------
\* Escaping of caller text into an AppleScript string literal.

\* The escaping, had the quotes been escaped before the backslashes
EscapeQuotesFirst(text) ==
    Replace(Replace(text, <<QUOTE>>, <<BACKSLASH, QUOTE>>),
            <<BACKSLASH>>, <<BACKSLASH, BACKSLASH>>)

\* title.replace("\\", "\\\\").replace('"', '\\"')
EscapeForAppleScript(text) ==
    Replace(Replace(text, <<BACKSLASH>>, <<BACKSLASH, BACKSLASH>>),
            <<QUOTE>>, <<BACKSLASH, QUOTE>>)

----------------------------------------------------------------------------
\* Dates: datetime.fromisoformat and _to_as_seconds.

IsDigit(ch) == \E k \in 1..10 : Digits[k] = ch

DigitValue(ch) == (CHOOSE k \in 1..10 : Digits[k] = ch) - 1

AllDigits(s) == \A i \in 1..Len(s) : IsDigit(s[i])

RECURSIVE Number(_)
\* int(s) for a text of digits
Number(s) ==
    IF s = <<>> THEN 0
    ELSE 10 * Number(SubSeq(s, 1, Len(s) - 1)) + DigitValue(s[Len(s)])

IsLeap(y) == (y % 4 = 0 /\ y % 100 # 0) \/ y % 400 = 0

DaysBeforeMonth == <<0, 31, 59, 90, 120, 151, 181, 212, 243, 273, 304, 334>>

DaysInMonth(y, m) ==
    IF m = 2 THEN (IF IsLeap(y) THEN 29 ELSE 28)
    ELSE IF m \in {4, 6, 9, 11} THEN 30 ELSE 31

\* date.toordinal(): 1 for 0001-01-01
Ordinal(y, m, d) ==
    365 * (y - 1) + ((y - 1) \div 4) - ((y - 1) \div 100) + ((y - 1) \div 400)
    + DaysBeforeMonth[m] + (IF m > 2 /\ IsLeap(y) THEN 1 ELSE 0) + d

NotADate == [ok |-> FALSE, year |-> 0, month |-> 0, day |-> 0,
             hour |-> 0, minute |-> 0, second |-> 0]

\* datetime.fromisoformat for the extended format YYYY-MM-DD[*HH[:MM[:SS]]]
\* (fractions of a second and UTC offsets are not modelled); ok is FALSE where
\* Python raises ValueError.
FromIsoFormat(s) ==
    LET n == Len(s)
        dateOk == /\ n >= 10
                  /\ AllDigits(SubSeq(s, 1, 4)) /\ s[5] = "-"
                  /\ AllDigits(SubSeq(s, 6, 7)) /\ s[8] = "-"
                  /\ AllDigits(SubSeq(s, 9, 10))
        y == Number(SubSeq(s, 1, 4))
        m == Number(SubSeq(s, 6, 7))
        d == Number(SubSeq(s, 9, 10))
        timeOk == /\ n \in {10, 13, 16, 19}
                  /\ n >= 13 => AllDigits(SubSeq(s, 12, 13))
                  /\ n >= 16 => s[14] = ":" /\ AllDigits(SubSeq(s, 15, 16))
                  /\ n >= 19 => s[17] = ":" /\ AllDigits(SubSeq(s, 18, 19))
        hh == IF n >= 13 THEN Number(SubSeq(s, 12, 13)) ELSE 0
        mm == IF n >= 16 THEN Number(SubSeq(s, 15, 16)) ELSE 0
        ss == IF n >= 19 THEN Number(SubSeq(s, 18, 19)) ELSE 0
    IN IF /\ dateOk /\ timeOk
          /\ y >= 1 /\ m \in 1..12 /\ d \in 1..DaysInMonth(y, m)
          /\ hh < 24 /\ mm < 60 /\ ss < 60
       THEN [ok |-> TRUE, year |-> y, month |-> m, day |-> d,
             hour |-> hh, minute |-> mm, second |-> ss]
       ELSE NotADate

\* _to_as_seconds: whole seconds from 2001-01-01 00:00:00 (_AS_EPOCH_LOCAL) to dt
ToAsSeconds(dt) ==
    (Ordinal(dt.year, dt.month, dt.day) - Ordinal(2001, 1, 1)) * 86400
    + dt.hour * 3600 + dt.minute * 60 + dt.second

----------------------------------------------------------------------------
\* The operations: validation and compilation, up to the call of
\* execute_applescript.

Operations == {"execute_applescript", "list_all_notes", "find_notes_by_title",
               "find_notes_by_date", "search_notes", "get_most_recent_note"}

CREATED == <<"c", "r", "e", "a", "t", "e", "d">>
MODIFIED == <<"m", "o", "d", "i", "f", "i", "e", "d">>

NoRequest == [op |-> "none", date_type |-> <<>>, after |-> <<>>, before |-> <<>>,
              title |-> <<>>, exact |-> FALSE, keywords |-> <<>>]

\* The validation, had the check that a bound is supplied been left out
DateValidationNoBoundCheck(req) ==
    LET date_type == Lower(Strip(req.date_type))
    IN IF date_type \notin {CREATED, MODIFIED}
       THEN "date_type must be 'created' or 'modified'"
       ELSE IF req.after # <<>> /\ ~FromIsoFormat(Strip(req.after)).ok
       THEN "Invalid 'after' date"
       ELSE IF req.before # <<>> /\ ~FromIsoFormat(Strip(req.before)).ok
       THEN "Invalid 'before' date"
       ELSE ""

\* find_notes_by_date, lines 60-85: "" when the arguments pass, else the
\* ValueError raised
DateValidation(req) ==
    LET date_type == Lower(Strip(req.date_type))
    IN IF date_type \notin {CREATED, MODIFIED}
       THEN "date_type must be 'created' or 'modified'"
       ELSE IF req.after = <<>> /\ req.before = <<>>
       THEN "At least one of 'after' or 'before' must be provided"
       ELSE IF req.after # <<>> /\ ~FromIsoFormat(Strip(req.after)).ok
       THEN "Invalid 'after' date"
       ELSE IF req.before # <<>> /\ ~FromIsoFormat(Strip(req.before)).ok
       THEN "Invalid 'before' date"
       ELSE ""

\* find_notes_by_title, lines 32-33
TitleValidation(req) ==
    IF req.title = <<>> \/ Strip(req.title) = <<>>
    THEN "Title search string cannot be empty"
    ELSE ""

\* What an operation does with its arguments before any subprocess: "" lets it
\* go on to compile and execute, "return []" is search_notes' early return, and
\* any other text is the message of the ValueError raised.
Validation(req) ==
    CASE req.op = "find_notes_by_date" -> DateValidation(req)
      [] req.op = "find_notes_by_title" -> TitleValidation(req)
      [] req.op = "search_notes" -> (IF req.keywords = <<>> THEN "return []" ELSE "")
      [] OTHER -> ""

\* The whose clause, had the bounds kept their time of day
DateWhoseClauseKeepTime(req) ==
    LET date_type == Lower(Strip(req.date_type))
        after_dt == IF req.after # <<>> THEN FromIsoFormat(Strip(req.after)) ELSE NotADate
        before_dt == IF req.before # <<>> THEN FromIsoFormat(Strip(req.before)) ELSE NotADate
        date_property == IF date_type = CREATED THEN "creation date" ELSE "modification date"
    IN (IF after_dt.ok
        THEN <<[property |-> date_property, cmp |-> ">=", secs |-> ToAsSeconds(after_dt)]>>
        ELSE <<>>)
       \o
       (IF before_dt.ok
        THEN <<[property |-> date_property, cmp |-> "<=", secs |-> ToAsSeconds(before_dt)]>>
        ELSE <<>>)

\* The whose clause find_notes_by_date compiles, lines 87-113
DateWhoseClause(req) ==
    LET date_type == Lower(Strip(req.date_type))
        after_dt == IF req.after # <<>> THEN FromIsoFormat(Strip(req.after)) ELSE NotADate
        before_dt == IF req.before # <<>> THEN FromIsoFormat(Strip(req.before)) ELSE NotADate
        after_start == [after_dt EXCEPT !.hour = 0, !.minute = 0, !.second = 0]
        before_end == [before_dt EXCEPT !.hour = 23, !.minute = 59, !.second = 59]
        date_property == IF date_type = CREATED THEN "creation date" ELSE "modification date"
    IN (IF after_dt.ok
        THEN <<[property |-> date_property, cmp |-> ">=", secs |-> ToAsSeconds(after_start)]>>
        ELSE <<>>)
       \o
       (IF before_dt.ok
        THEN <<[property |-> date_property, cmp |-> "<=", secs |-> ToAsSeconds(before_end)]>>
        ELSE <<>>)

\* The whose clause find_notes_by_title compiles, lines 35-43
TitleWhoseClause(req) ==
    [cmp |-> IF req.exact THEN "name is" ELSE "name contains",
     literal |-> EscapeForAppleScript(Strip(req.title))]

\* The keyword list search_notes compiles, lines 25-29
SearchKeywords(req) ==
    [i \in 1..Len(req.keywords) |-> EscapeForAppleScript(req.keywords[i])]

\* The script handed to execute_applescript: the operation's template and the
\* parts compiled from the arguments.
Script(req) ==
    [template |-> req.op,
     whose |-> CASE req.op = "find_notes_by_date" -> DateWhoseClause(req)
                 [] req.op = "find_notes_by_title" -> <<TitleWhoseClause(req)>>
                 [] OTHER -> <<>>,
     keywords |-> IF req.op = "search_notes" THEN SearchKeywords(req) ELSE <<>>]

----------------------------------------------------------------------------
\* The outcomes of execute_applescript and of the operations.

Outcome(kind, text, notes) == [kind |-> kind, text |-> text, notes |-> notes]

\* The returned text, had only trailing whitespace been removed: rstrip()
ResultTextRightTrim(stdout) == RStrip(stdout)

\* base_operations.py line 48: the text a zero exit returns
ResultText(stdout) == Strip(stdout)

\* The classification, had it looked at the error stream instead of the status
ExecuteResultByStderr(returncode, stdout, stderr) ==
    IF stderr # <<>>
    THEN Outcome("RuntimeError", <<"AppleScript error: ">> \o stderr, <<>>)
    ELSE Outcome("return", Strip(stdout), <<>>)

\* base_operations.py lines 45-48, once communicate() has returned
ExecuteResult(returncode, stdout, stderr) ==
    IF returncode # 0
    THEN Outcome("RuntimeError", <<"AppleScript error: ">> \o stderr, <<>>)
    ELSE Outcome("return", ResultText(stdout), <<>>)

\* base_operations.py lines 38-43
ExecuteTimeout == Outcome("TimeoutError", <<"AppleScript timed out">>, <<>>)

FailurePrefix(op) ==
    CASE op = "list_all_notes" -> "Failed to list all notes: "
      [] op = "find_notes_by_title" -> "Failed to find notes by title: "
      [] op = "find_notes_by_date" -> "Failed to find notes by date: "
      [] op = "search_notes" -> "Failed to search notes: "
      [] op = "get_most_recent_note" -> "Failed to get most recent note: "

\* What each operation's decoder makes of a result that is no host failure
Decoded(req, result) ==
    CASE req.op = "list_all_notes" -> Outcome("return", <<>>, ParseNotesList(result))
      [] req.op = "find_notes_by_title" -> Outcome("return", <<>>, ParseTitleResults(result))
      [] req.op = "find_notes_by_date" ->
            Outcome("return", <<>>,
                    SortNewestFirst(ParseDateResults(result),
                                    IF Lower(Strip(req.date_type)) = MODIFIED
                                    THEN "modification_date" ELSE "creation_date"))
      [] req.op = "search_notes" -> Outcome("return", <<>>, ParseSearchResults(result))
      [] req.op = "get_most_recent_note" ->
            LET parsed == ParseResult(result)
            IN IF parsed.raised # ""
               THEN Outcome("RuntimeError", <<parsed.raised>> \o result, <<>>)
               ELSE Outcome("return", <<>>, <<parsed.note>>)

\* The operation's code, had it decoded every result without the sentinel check
OperationResultNoSentinel(req, executed) ==
    IF executed.kind # "return" THEN executed
    ELSE IF req.op = "execute_applescript" THEN executed
    ELSE Decoded(req, executed.text)

\* The operation's code after `await execute_applescript(script)`: an exception
\* of the engine propagates; a result that starts with the sentinel is raised
\* as a failure carrying result[6:]; any other result is decoded.
OperationResult(req, executed) ==
    IF executed.kind # "return" THEN executed
    ELSE IF req.op = "execute_applescript" THEN executed
    ELSE IF StartsWith(executed.text, ERROR_SENTINEL)
    THEN Outcome("RuntimeError", <<FailurePrefix(req.op)>> \o DropFirst(executed.text, 6), <<>>)
    ELSE Decoded(req, executed.text)

----------------------------------------------------------------------------
\* Calls: an operation is called, validates, compiles and awaits
\* execute_applescript, which creates the subprocess, waits for it under the
\* deadline, and returns or raises.

NoProcess == [state |-> "none", killed |-> FALSE, returncode |-> 0,
              stdout |-> <<>>, stderr |-> <<>>, script |-> <<>>]

InitCalls ==
    /\ pc = [c \in Calls |-> "idle"]
    /\ request = [c \in Calls |-> NoRequest]
    /\ process = [c \in Calls |-> NoProcess]
    /\ launches = [c \in Calls |-> 0]
    /\ engine = [c \in Calls |-> <<>>]
    /\ reply = [c \in Calls |-> <<>>]

\* A caller calls an operation with its arguments.
Call(c, req) ==
    /\ pc[c] = "idle"
    /\ pc' = [pc EXCEPT ![c] = "called"]
    /\ request' = [request EXCEPT ![c] = req]
    /\ UNCHANGED <<process, launches, engine, reply, pureVars>>

\* The operation raises ValueError on its arguments.
Reject(c) ==
    /\ pc[c] = "called"
    /\ Validation(request[c]) \notin {"", "return []"}
    /\ reply' = [reply EXCEPT ![c] = Append(@, Outcome("ValueError", <<Validation(request[c])>>, <<>>))]
    /\ pc' = [pc EXCEPT ![c] = "done"]
    /\ UNCHANGED <<request, process, launches, engine, pureVars>>

\* search_notes, lines 22-23: no keywords, no search.
ReturnEmpty(c) ==
    /\ pc[c] = "called"
    /\ Validation(request[c]) = "return []"
    /\ reply' = [reply EXCEPT ![c] = Append(@, Outcome("return", <<>>, <<>>))]
    /\ pc' = [pc EXCEPT ![c] = "done"]
    /\ UNCHANGED <<request, process, launches, engine, pureVars>>

\* base_operations.py lines 24-34: the arguments passed, the script is compiled,
\* the subprocess is created and communicate() awaited under the deadline.
Launch(c) ==
    /\ pc[c] = "called"
    /\ Validation(request[c]) = ""
    /\ process' = [process EXCEPT ![c] = [NoProcess EXCEPT !.state = "running",
                                                           !.script = Script(request[c])]]
    /\ launches' = [launches EXCEPT ![c] = @ + 1]
    /\ pc' = [pc EXCEPT ![c] = "communicate"]
    /\ UNCHANGED <<request, engine, reply, pureVars>>

\* The host's part: osascript exits by itself, with a status and what it wrote.
ProcessExits(c, returncode, stdout, stderr) ==
    /\ process[c].state = "running"
    /\ ~process[c].killed
    /\ process' = [process EXCEPT ![c] = [@ EXCEPT !.state = "exited",
                                                   !.returncode = returncode,
                                                   !.stdout = stdout,
                                                   !.stderr = stderr]]
    /\ UNCHANGED <<pc, request, launches, engine, reply, pureVars>>

\* base_operations.py lines 32-34 and 45-48, and the operation's code after the
\* await: communicate() returns once the subprocess has exited and been waited
\* for; the exit status decides between RuntimeError and the stripped output,
\* and the operation raises or decodes without another suspension.
Complete(c) ==
    /\ pc[c] = "communicate"
    /\ process[c].state = "exited"
    /\ LET executed == ExecuteResult(process[c].returncode, process[c].stdout,
                                     process[c].stderr)
       IN /\ engine' = [engine EXCEPT ![c] = Append(@, executed)]
          /\ reply' = [reply EXCEPT ![c] = Append(@, OperationResult(request[c], executed))]
    /\ process' = [process EXCEPT ![c].state = "reaped"]
    /\ pc' = [pc EXCEPT ![c] = "done"]
    /\ UNCHANGED <<request, launches, pureVars>>

\* base_operations.py line 35: the deadline elapses while the subprocess is
\* still running; wait_for cancels communicate() and raises asyncio.TimeoutError.
DeadlineElapses(c) ==
    /\ pc[c] = "communicate"
    /\ process[c].state = "running"
    /\ pc' = [pc EXCEPT ![c] = "except"]
    /\ UNCHANGED <<request, process, launches, engine, reply, pureVars>>

\* The except block, had it killed every osascript still running rather than
\* the subprocess of its own call
KillEvery(c) ==
    /\ pc[c] = "except"
    /\ process' = [d \in DOMAIN process |->
                      [process[d] EXCEPT !.killed =
                           IF d = c THEN process[c].state = "running"
                           ELSE @ \/ process[d].state = "running"]]
    /\ pc' = [pc EXCEPT ![c] = "reap"]
    /\ UNCHANGED <<request, launches, engine, reply, pureVars>>

\* base_operations.py lines 36-37: process.kill() sends SIGKILL (nothing is
\* sent to a subprocess that exited in the meantime), then communicate() is
\* awaited again.
Kill(c) ==
    /\ pc[c] = "except"
    /\ process' = [process EXCEPT ![c].killed = (process[c].state = "running")]
    /\ pc' = [pc EXCEPT ![c] = "reap"]
    /\ UNCHANGED <<request, launches, engine, reply, pureVars>>

\* The host's part: the killed subprocess dies of the signal; what it wrote so
\* far stays in the pipes.
KilledProcessDies(c, stdout) ==
    /\ process[c].state = "running"
    /\ process[c].killed
    /\ process' = [process EXCEPT ![c] = [@ EXCEPT !.state = "exited",
                                                   !.returncode = -9,
                                                   !.stdout = stdout]]
    /\ UNCHANGED <<pc, request, launches, engine, reply, pureVars>>

\* The timeout path, had `await process.communicate()` been left out: the
\* TimeoutError is raised right after kill().
RaiseWithoutReaping(c) ==
    /\ pc[c] = "reap"
    /\ engine' = [engine EXCEPT ![c] = Append(@, ExecuteTimeout)]
    /\ reply' = [reply EXCEPT ![c] = Append(@, OperationResult(request[c], ExecuteTimeout))]
    /\ pc' = [pc EXCEPT ![c] = "done"]
    /\ UNCHANGED <<request, process, launches, pureVars>>

\* The timeout path, had the engine tried again instead of raising.
RetryAfterTimeout(c) ==
    /\ pc[c] = "reap"
    /\ process[c].state = "exited"
    /\ process' = [process EXCEPT ![c].state = "reaped"]
    /\ pc' = [pc EXCEPT ![c] = "called"]
    /\ UNCHANGED <<request, launches, engine, reply, pureVars>>

\* base_operations.py lines 37-43: the second communicate() returns once the
\* subprocess is gone and waited for; its output is dropped and TimeoutError
\* raised, which the operation lets through.
ReapAndRaise(c) ==
    /\ pc[c] = "reap"
    /\ process[c].state = "exited"
    /\ process' = [process EXCEPT ![c].state = "reaped"]
    /\ engine' = [engine EXCEPT ![c] = Append(@, ExecuteTimeout)]
    /\ reply' = [reply EXCEPT ![c] = Append(@, OperationResult(request[c], ExecuteTimeout))]
    /\ pc' = [pc EXCEPT ![c] = "done"]
    /\ UNCHANGED <<request, launches, pureVars>>

----------------------------------------------------------------------------
\* The arguments callers pass and the ways the host answers.

Field(name, full_id, folder, created, modified) ==
    Join(<<name, full_id, folder, created, modified>>, DELIM)

NoteA == Field(<<"a">>, <<"x", "/", "p", "1">>, <<"F">>, <<"1">>, <<"2">>)
NoteB == Field(<<"b">>, <<"x", "/", "p", "2">>, <<"F">>, <<"3">>, <<"4">>)
HostError == ERROR_SENTINEL \o <<"n", "o">>

DateTypeSamples == {CREATED, <<" ", "M", "o", "d", "i", "f", "i", "e", "d", " ">>,
                    <<"b", "o", "g", "u", "s">>}
AfterSamples == {<<>>,
                 <<"2", "0", "2", "4", "-", "0", "1", "-", "1", "5">>,
                 <<"2", "0", "2", "4", "-", "1", "3", "-", "0", "1">>}
BeforeSamples == {<<>>,
                  <<"2", "0", "2", "4", "-", "1", "2", "-", "3", "1">>,
                  <<" ">>}
TitleSamples == {<<>>, <<" ">>, <<" ", "a", "\"">>}
KeywordSamples == {<<>>, << <<>> >>, << <<"a">>, <<"\\">> >>}

Requests ==
    {[NoRequest EXCEPT !.op = op] :
        op \in {"execute_applescript", "list_all_notes", "get_most_recent_note"}}
    \cup {[NoRequest EXCEPT !.op = "find_notes_by_date",
                            !.date_type = t, !.after = a, !.before = b] :
            t \in DateTypeSamples, a \in AfterSamples, b \in BeforeSamples}
    \cup {[NoRequest EXCEPT !.op = "find_notes_by_title", !.title = t, !.exact = e] :
            t \in TitleSamples, e \in BOOLEAN}
    \cup {[NoRequest EXCEPT !.op = "search_notes", !.keywords = k] :
            k \in KeywordSamples}

StdoutSamples == {<<>>,
                  HostError,
                  <<" ">> \o HostError \o <<LF>>,
                  NoteA \o <<CR>> \o NoteB \o <<LF>>,
                  SUCCESS_PREFIX \o NoteA \o DELIM \o <<"t">>}
Oops == <<"o", "o", "p", "s", LF>>

\* The ways osascript exits by itself: status, standard output, standard error
ExitSamples ==
    {[returncode |-> 0, stdout |-> out, stderr |-> <<>>] : out \in StdoutSamples}
    \cup {[returncode |-> 0, stdout |-> NoteA, stderr |-> Oops],
          [returncode |-> 1, stdout |-> <<>>, stderr |-> <<>>],
          [returncode |-> 1, stdout |-> <<>>, stderr |-> Oops],
          [returncode |-> 1, stdout |-> HostError, stderr |-> Oops]}

\* What the killed subprocess had written by then
PartialSamples == {<<>>, NoteA}

----------------------------------------------------------------------------
\* The bridge under calls of every operation.

Init ==
    /\ InitCalls
    /\ input = <<>>
    /\ output = <<>>

Next ==
    \E c \in Calls :
        \/ \E req \in Requests : Call(c, req)
        \/ Reject(c)
        \/ ReturnEmpty(c)
        \/ Launch(c)
        \/ \E e \in ExitSamples : ProcessExits(c, e.returncode, e.stdout, e.stderr)
        \/ Complete(c)
        \/ DeadlineElapses(c)
        \/ Kill(c)
        \/ \E out \in PartialSamples : KilledProcessDies(c, out)
        \/ ReapAndRaise(c)

Spec == Init /\ [][Next]_vars

----------------------------------------------------------------------------
\* execute_applescript under every short standard output.

OutputAlphabet == {SP, LF, "a"}

NextOutputs ==
    \E c \in Calls :
        \/ Call(c, [NoRequest EXCEPT !.op = "execute_applescript"])
        \/ Launch(c)
        \/ \E rc \in {0, 1}, out \in Texts(OutputAlphabet, MaxOutput) :
               ProcessExits(c, rc, out, <<>>)
        \/ Complete(c)

SpecOutputs == Init /\ [][NextOutputs]_vars

----------------------------------------------------------------------------
\* The sequence decoders under every short result, in each line-ending
\* convention.  input is the host's records, line by line and field by field,
\* and the decoder applied; output[sep] is what the decoder returns for the
\* lines joined by sep.

Decoders == {"list_all_notes", "find_notes_by_title", "find_notes_by_date", "search_notes"}

Separators == {"CR", "LF", "CRLF"}

SeparatorText(sep) ==
    CASE sep = "CR" -> <<CR>>
      [] sep = "LF" -> <<LF>>
      [] sep = "CRLF" -> <<CR, LF>>

ExpectedFields(decoder) == IF decoder = "search_notes" THEN 4 ELSE 5

\* The decoder an operation applies to a result
ApplyDecoder(decoder, result) ==
    CASE decoder = "list_all_notes" -> ParseNotesList(result)
      [] decoder = "find_notes_by_title" -> ParseTitleResults(result)
      [] decoder = "find_notes_by_date" -> ParseDateResults(result)
      [] decoder = "search_notes" -> ParseSearchResults(result)

Id(n) == <<"x", "/", "p", n>>

\* The lines a host may emit: two records of five fields, a line cut short
\* after three fields, a record of four fields, a record whose note name is
\* empty, a record whose identifier has no key segment, a record of six fields.
LineSamples ==
    {<<<<"a">>, Id("1"), <<"F">>, <<"1">>, <<"2">>>>,
     <<<<"b">>, Id("2"), <<"F">>, <<"3">>, <<"4">>>>,
     <<<<"a">>, Id("1"), <<"F">>>>,
     <<<<"c">>, Id("3"), <<"F">>, <<"5">>>>,
     <<<<>>, Id("4"), <<"F">>, <<"6">>, <<"7">>>>,
     <<<<"d">>, <<"q">>, <<"F">>, <<"8">>, <<"9">>>>,
     <<<<"e">>, Id("5"), <<"F">>, <<"1">>, <<"2">>, <<"z">>>>}

RECURSIVE LineSeqs(_)
LineSeqs(n) ==
    IF n = 0 THEN {<<>>}
    ELSE LET shorter == LineSeqs(n - 1)
         IN shorter \cup {Append(ls, l) : ls \in shorter, l \in LineSamples}

\* The text of the lines, each its fields joined by "|||", joined by sep
ResultOf(lines, sep) ==
    Join([i \in 1..Len(lines) |-> Join(lines[i], DELIM)], SeparatorText(sep))

NotDecoded == [decoded |-> FALSE, notes |-> <<>>]

InitDecode ==
    /\ InitCalls
    /\ input \in {[decoder |-> d, lines |-> ls] : d \in Decoders, ls \in LineSeqs(MaxLines)}
    /\ output = [sep \in Separators |-> NotDecoded]

Decode(sep) ==
    /\ output[sep] = NotDecoded
    /\ output' = [output EXCEPT ![sep] =
                      [decoded |-> TRUE,
                       notes |-> ApplyDecoder(input.decoder, ResultOf(input.lines, sep))]]
    /\ UNCHANGED <<input, callVars>>

NextDecode == \E sep \in Separators : Decode(sep)

SpecDecode == InitDecode /\ [][NextDecode]_vars

----------------------------------------------------------------------------
\* The most-recent-note decoder under every short body.

BodyAlphabet == {PIPE, "b"}

InitRecent ==
    /\ InitCalls
    /\ input \in [name : {<<"n">>, <<"n", PIPE>>},
                  full_id : {Id("1")},
                  folder : {<<"F">>, <<PIPE, "F">>},
                  creation_date : {<<"1">>},
                  modification_date : {<<"2">>, <<"2", PIPE>>},
                  body : Texts(BodyAlphabet, MaxBody)]
    /\ output = [decoded |-> FALSE, parsed |-> ParseResult(<<>>)]

\* The result the compiled script returns for the note, get_most_recent_note.py line 56
RecentResult(note) ==
    SUCCESS_PREFIX \o Join(<<note.name, note.full_id, note.folder, note.creation_date,
                             note.modification_date, note.body>>, DELIM)

DecodeRecent ==
    /\ ~output.decoded
    /\ output' = [decoded |-> TRUE, parsed |-> ParseResult(RecentResult(input))]
    /\ UNCHANGED <<input, callVars>>

SpecRecent == InitRecent /\ [][DecodeRecent]_vars

----------------------------------------------------------------------------
\* The escaping under every short caller text.

RECURSIVE ReadLiteral(_)
\* How the script compiler reads the characters that follow an opening quote:
\* a backslash takes the next character with it, a bare quote ends the literal.
\* closed tells whether a bare quote was met, text is what was read before it.
ReadLiteral(s) ==
    IF s = <<>> THEN [closed |-> FALSE, text |-> <<>>]
    ELSE IF s[1] = QUOTE THEN [closed |-> TRUE, text |-> <<>>]
    ELSE IF s[1] = BACKSLASH /\ Len(s) >= 2
    THEN LET rest == ReadLiteral(SubSeq(s, 3, Len(s)))
             ch == CASE s[2] = "n" -> LF
                     [] s[2] = "r" -> CR
                     [] s[2] = "t" -> TAB
                     [] OTHER -> s[2]
         IN [closed |-> rest.closed, text |-> <<ch>> \o rest.text]
    ELSE LET rest == ReadLiteral(Tail(s))
         IN [closed |-> rest.closed, text |-> <<s[1]>> \o rest.text]

TextAlphabet == {"n", BACKSLASH, QUOTE}


InitEscape ==
    /\ InitCalls
    /\ input \in Texts(TextAlphabet, MaxText)
    /\ output = [stage |-> "text", escaped |-> <<>>, read |-> ReadLiteral(<<>>)]

\* find_notes_by_title.py line 37, search_notes.py lines 26-28
Escape ==
    /\ output.stage = "text"
    /\ output' = [output EXCEPT !.stage = "escaped", !.escaped = EscapeForAppleScript(input)]
    /\ UNCHANGED <<input, callVars>>

\* The host compiles the script: the literal "<escaped>" is read back.
Compile ==
    /\ output.stage = "escaped"
    /\ output' = [output EXCEPT !.stage = "read",
                                 !.read = ReadLiteral(output.escaped \o <<QUOTE>>)]
    /\ UNCHANGED <<input, callVars>>

NextEscape == Escape \/ Compile

SpecEscape == InitEscape /\ [][NextEscape]_vars

----------------------------------------------------------------------------
\* Properties.

Raised(outcomes, kind) == \E i \in 1..Len(outcomes) : outcomes[i].kind = kind

\* C1: a caller has observed the timeout only after the subprocess was killed
\* and reaped: in every state where execute_applescript has raised TimeoutError
\* (or the operation has let it through), the call's subprocess has exited and
\* been waited for; while the except block runs nothing has been surfaced, and a
\* subprocess still running when communicate() is awaited again has been sent
\* the kill.
C1_TimeoutAfterKillAndReap ==
    \A c \in Calls :
        /\ (Raised(engine[c], "TimeoutError") \/ Raised(reply[c], "TimeoutError"))
               => process[c].state = "reaped"
        /\ pc[c] \in {"except", "reap"} => engine[c] = <<>> /\ reply[c] = <<>>
        /\ (pc[c] = "reap" /\ process[c].state = "running") => process[c].killed

\* A call timed out on a subprocess that had to be killed.
C1_Witness ==
    \E c \in Calls :
        /\ Raised(reply[c], "TimeoutError")
        /\ process[c].killed
        /\ process[c].returncode = -9

BadDateType(req) == Lower(Strip(req.date_type)) \notin {CREATED, MODIFIED}
NoBound(req) == req.after = <<>> /\ req.before = <<>>
Unparseable(text) == text # <<>> /\ ~FromIsoFormat(Strip(text)).ok
BadDateRequest(req) ==
    \/ BadDateType(req)
    \/ NoBound(req)
    \/ Unparseable(req.after)
    \/ Unparseable(req.before)

\* C2: find_notes_by_date raises ValueError and creates no subprocess when the
\* trimmed, lower-cased date_type is neither 'created' nor 'modified', when
\* after and before are both empty, or when a supplied after/before is no ISO
\* date (as fromisoformat reads it once trimmed); a call that has created a
\* subprocess has passed all three checks.
C2_DateValidationBeforeLaunch ==
    \A c \in Calls :
        request[c].op = "find_notes_by_date" =>
            /\ (BadDateRequest(request[c]) /\ pc[c] # "called") =>
                   /\ pc[c] = "done"
                   /\ launches[c] = 0
                   /\ process[c].state = "none"
                   /\ Len(reply[c]) = 1
                   /\ reply[c][1].kind = "ValueError"
            /\ launches[c] > 0 => ~BadDateRequest(request[c])

\* A call with a valid date_type and a bound that is no date was rejected.
C2_Witness ==
    \E c \in Calls :
        /\ request[c].op = "find_notes_by_date"
        /\ ~BadDateType(request[c])
        /\ Unparseable(request[c].after)
        /\ Raised(reply[c], "ValueError")

\* C3: execute_applescript does not interpret the sentinel: a zero exit whose
\* output begins with 'error:' is returned as text like any other.  The
\* operation that receives a text beginning with 'error:' raises a failure
\* whose message ends with the text after the six characters, and returns no
\* records; a direct caller of execute_applescript gets the text.
C3_SentinelLeftToCallers ==
    \A c \in Calls :
        /\ ( /\ engine[c] # <<>>
             /\ engine[c][1].kind # "TimeoutError"
             /\ process[c].returncode = 0
             /\ StartsWith(process[c].stdout, ERROR_SENTINEL) )
               => /\ engine[c][1].kind = "return"
                  /\ StartsWith(engine[c][1].text, ERROR_SENTINEL)
        /\ ( /\ engine[c] # <<>>
             /\ engine[c][1].kind = "return"
             /\ StartsWith(engine[c][1].text, ERROR_SENTINEL) )
               => /\ Len(reply[c]) = 1
                  /\ IF request[c].op = "execute_applescript"
                     THEN reply[c][1] = engine[c][1]
                     ELSE /\ reply[c][1].kind = "RuntimeError"
                          /\ reply[c][1].notes = <<>>
                          /\ Tail(reply[c][1].text)
                                 = SubSeq(engine[c][1].text, 7, Len(engine[c][1].text))

\* get_most_recent_note raised the host's message it was returned as text.
C3_Witness ==
    \E c \in Calls :
        /\ request[c].op = "get_most_recent_note"
        /\ engine[c] # <<>>
        /\ engine[c][1].kind = "return"
        /\ Raised(reply[c], "RuntimeError")
        /\ Tail(reply[c][1].text) = <<"n", "o">>

\* C4: when the subprocess has exited with a non-zero status by the time
\* communicate() returns (the deadline has not elapsed), the step that leaves
\* the await raises the RuntimeError that carries the error stream as written,
\* whatever the standard output; it neither returns text nor raises
\* TimeoutError.
C4_NonZeroExitRaises ==
    [][\A c \in Calls :
           ( /\ pc[c] = "communicate"
             /\ process[c].state = "exited"
             /\ process[c].returncode # 0
             /\ pc'[c] # "communicate" )
           => /\ engine'[c] = <<Outcome("RuntimeError",
                                        <<"AppleScript error: ">> \o process[c].stderr,
                                        <<>>)>>
              /\ reply'[c] = engine'[c]]_vars

\* A run that wrote to both streams and exited with status 1 was raised as
\* RuntimeError.
C4_Witness ==
    \E c \in Calls :
        /\ process[c].returncode = 1
        /\ process[c].stdout # <<>>
        /\ process[c].stderr # <<>>
        /\ engine[c] = <<Outcome("RuntimeError",
                                 <<"AppleScript error: ">> \o process[c].stderr, <<>>)>>

\* r is s without its trailing whitespace
IsRightTrimOf(r, s) ==
    \E k \in 0..Len(s) :
        /\ r = SubSeq(s, 1, k)
        /\ AllSpace(SubSeq(s, k + 1, Len(s)))
        /\ k = 0 \/ ~IsSpace(s[k])

\* r is s without its leading and its trailing whitespace
IsTrimOf(r, s) ==
    \E i \in 1..(Len(s) + 1), k \in 0..Len(s) :
        /\ i <= k + 1
        /\ r = SubSeq(s, i, k)
        /\ AllSpace(SubSeq(s, 1, i - 1))
        /\ AllSpace(SubSeq(s, k + 1, Len(s)))
        /\ r = <<>> \/ (~IsSpace(r[1]) /\ ~IsSpace(r[Len(r)]))

\* C5 as stated: a zero exit returns the standard output with only its
\* trailing whitespace removed, leading characters kept.
C5_ReturnsRightTrimmedOutput ==
    \A c \in Calls :
        (engine[c] # <<>> /\ process[c].returncode = 0) =>
            /\ engine[c][1].kind = "return"
            /\ IsRightTrimOf(engine[c][1].text, process[c].stdout)

\* C5 as amended: a zero exit returns the standard output with its leading and
\* its trailing whitespace removed, and nothing else changed.
C5_ReturnsTrimmedOutput ==
    \A c \in Calls :
        (engine[c] # <<>> /\ process[c].returncode = 0) =>
            /\ engine[c][1].kind = "return"
            /\ IsTrimOf(engine[c][1].text, process[c].stdout)

\* An output with whitespace before and after its text was returned.
C5_Witness ==
    \E c \in Calls :
        /\ engine[c] # <<>>
        /\ process[c].returncode = 0
        /\ Len(process[c].stdout) = 3
        /\ IsSpace(process[c].stdout[1])
        /\ ~IsSpace(process[c].stdout[2])
        /\ IsSpace(process[c].stdout[3])

\* C6: a call of execute_applescript creates one subprocess and surfaces one
\* outcome, a returned text, TimeoutError or RuntimeError: never a second
\* subprocess, never a second outcome; an outcome is there once the call is
\* done, and only then.
C6_OneSubprocessOneOutcome ==
    \A c \in Calls :
        /\ launches[c] <= 1
        /\ (launches[c] = 0) = (process[c].state = "none")
        /\ Len(engine[c]) <= 1
        /\ Len(reply[c]) <= 1
        /\ engine[c] # <<>> =>
               /\ launches[c] = 1
               /\ pc[c] = "done"
               /\ engine[c][1].kind \in {"return", "TimeoutError", "RuntimeError"}
        /\ (pc[c] = "done" /\ launches[c] = 1) => Len(engine[c]) = 1

\* A call timed out, and did so on its only subprocess.
C6_Witness ==
    \E c \in Calls :
        /\ engine[c] = <<ExecuteTimeout>>
        /\ launches[c] = 1
        /\ pc[c] = "done"

\* A record line as the compiled scripts emit it for the decoder: the expected
\* number of fields, a note name, an identifier with a key
WellFormedLine(decoder, line) ==
    /\ Len(line) = ExpectedFields(decoder)
    /\ line[1] # <<>>
    /\ ExtractPrimaryKey(line[2]) # <<>>

\* C7: every sequence decoder reads the three line-ending conventions alike:
\* well-formed record lines joined by carriage return, by line feed or by the
\* pair decode to the same records.
C7_LineEndingsDecodeAlike ==
    (\A i \in 1..Len(input.lines) : WellFormedLine(input.decoder, input.lines[i])) =>
        \A s1 \in Separators, s2 \in Separators :
            (output[s1].decoded /\ output[s2].decoded) => output[s1].notes = output[s2].notes

\* The record of a line, its fields taken by position
PositionalRecord(decoder, line) ==
    IF decoder = "search_notes"
    THEN [note_id |-> ExtractPrimaryKey(line[2]), name |-> line[1], folder |-> line[3],
          matched_keyword |-> line[4]]
    ELSE [note_id |-> ExtractPrimaryKey(line[2]), name |-> line[1], folder |-> line[3],
          creation_date |-> line[4], modification_date |-> line[5]]

RecordsOf(decoder, lines) == [i \in 1..Len(lines) |-> PositionalRecord(decoder, lines[i])]

HasFields(decoder, line) == Len(line) >= ExpectedFields(decoder)

\* C8 as stated: of the lines the host joined by carriage return, those with
\* fewer fields than expected (5, or 4 for the keyword search) are dropped and
\* every other line is decoded: the records are those of the lines with enough
\* fields, in the order of the input, fields by position.
C8_ShortLinesDroppedOthersDecoded ==
    output["CR"].decoded =>
        output["CR"].notes
            = RecordsOf(input.decoder,
                        SelectSeq(input.lines, LAMBDA l : HasFields(input.decoder, l)))

\* C8 as amended: the same, but the keyword search also drops a line whose
\* note name is empty or whose identifier yields no key.
C8_ShortLinesDroppedOthersDecodedAmended ==
    output["CR"].decoded =>
        output["CR"].notes
            = RecordsOf(input.decoder,
                        SelectSeq(input.lines,
                                  LAMBDA l : /\ HasFields(input.decoder, l)
                                             /\ input.decoder = "search_notes" =>
                                                    /\ l[1] # <<>>
                                                    /\ ExtractPrimaryKey(l[2]) # <<>>))

\* A short line came first and the record after it was decoded.
C8_Witness ==
    /\ output["CR"].decoded
    /\ Len(input.lines) = 2
    /\ ~HasFields(input.decoder, input.lines[1])
    /\ HasFields(input.decoder, input.lines[2])
    /\ output["CR"].notes = <<PositionalRecord(input.decoder, input.lines[2])>>

HeadFields(note) ==
    <<note.name, note.full_id, note.folder, note.creation_date, note.modification_date>>

FieldsDecodedUnchanged ==
    /\ output.parsed.raised = ""
    /\ output.parsed.note.name = input.name
    /\ output.parsed.note.note_id = ExtractPrimaryKey(input.full_id)
    /\ output.parsed.note.folder = input.folder
    /\ output.parsed.note.creation_date = input.creation_date
    /\ output.parsed.note.modification_date = input.modification_date
    /\ output.parsed.note.body = input.body

\* C9 as stated: when none of the five fields before the body contains '|||',
\* the most-recent-note decoder returns the body as it was, whatever the body,
\* and the five fields unshifted.
C9_BodyAndFieldsPreserved ==
    ( /\ output.decoded
      /\ \A i \in 1..5 : Find(HeadFields(input)[i], DELIM) = 0 )
        => FieldsDecodedUnchanged

\* C9 as amended: when none of the five fields before the body contains '|||'
\* or ends with '|', the decoder returns the body as it was, whatever the
\* body, and the five fields unshifted.
C9_BodyAndFieldsPreservedAmended ==
    ( /\ output.decoded
      /\ \A i \in 1..5 :
             LET field == HeadFields(input)[i]
             IN /\ Find(field, DELIM) = 0
                /\ field = <<>> \/ field[Len(field)] # PIPE )
        => FieldsDecodedUnchanged

\* A note whose body holds the delimiter was decoded with its body whole.
C9_Witness ==
    /\ output.decoded
    /\ input.body = DELIM
    /\ input.folder[1] = PIPE
    /\ output.parsed.raised = ""
    /\ output.parsed.note.body = DELIM

\* The number of backslashes in a row right before position i of s
BackslashesBefore(s, i) ==
    LET runs == {k \in 0..(i - 1) : \A j \in (i - k)..(i - 1) : s[j] = BACKSLASH}
    IN CHOOSE k \in runs : \A m \in runs : m <= k

\* A quote at position i that no backslash escapes
UnescapedQuoteAt(s, i) == s[i] = QUOTE /\ BackslashesBefore(s, i) % 2 = 0

\* C10: the escaping round-trips: the escaped text holds no unescaped quote,
\* and the literal read back from it, up to the closing quote, is the caller's
\* text.
C10_EscapingRoundTrips ==
    /\ output.stage # "text" =>
           \A i \in 1..Len(output.escaped) : ~UnescapedQuoteAt(output.escaped, i)
    /\ output.stage = "read" =>
           /\ output.read.closed
           /\ output.read.text = input

\* A text with a backslash right before a quote was escaped and read back.
C10_Witness ==
    /\ output.stage = "read"
    /\ Len(input) >= 2
    /\ input[1] = BACKSLASH
    /\ input[2] = QUOTE
    /\ output.read.text = input

----------------------------------------------------------------------------
\* find_notes_by_date under the days around the anchor.  input is the
\* arguments; output is what the operation has made of them: nothing yet, the
\* ValueError, or the whose clause compiled.

\* Years of the bounds: from before the anchor year to MaxYears past 2000
MaxYears == 4

Years == 1999..(2000 + MaxYears)

RECURSIVE DigitText(_, _)
\* n written in width digits
DigitText(n, width) ==
    IF width = 0 THEN <<>>
    ELSE DigitText(n \div 10, width - 1) \o <<Digits[(n % 10) + 1]>>

\* YYYY-MM-DD
IsoDate(y, m, d) == DigitText(y, 4) \o <<"-">> \o DigitText(m, 2) \o <<"-">> \o DigitText(d, 2)

TimeOfDaySamples == {<<>>, <<"T", "1", "0", ":", "3", "0", ":", "1", "5">>}

\* The bounds callers pass: none, or a day (29 February of every year among
\* them) with or without a time of day
BoundSamples ==
    {<<>>} \cup {IsoDate(y, m, d) \o t :
                    y \in Years, m \in {1, 2, 12}, d \in {1, 29, 31}, t \in TimeOfDaySamples}

InitDates ==
    /\ InitCalls
    /\ input \in [date_type : {CREATED, MODIFIED}, after : BoundSamples, before : BoundSamples]
    /\ output = [stage |-> "args", raised |-> "", clause |-> <<>>]

DateRequest(args) ==
    [NoRequest EXCEPT !.op = "find_notes_by_date", !.date_type = args.date_type,
                      !.after = args.after, !.before = args.before]

\* find_notes_by_date, lines 60-85: raise ValueError
RejectDates ==
    /\ output.stage = "args"
    /\ DateValidation(DateRequest(input)) # ""
    /\ output' = [output EXCEPT !.stage = "rejected",
                                 !.raised = DateValidation(DateRequest(input))]
    /\ UNCHANGED <<input, callVars>>

\* find_notes_by_date, lines 87-113: the whose clause
CompileDates ==
    /\ output.stage = "args"
    /\ DateValidation(DateRequest(input)) = ""
    /\ output' = [output EXCEPT !.stage = "compiled",
                                 !.clause = DateWhoseClause(DateRequest(input))]
    /\ UNCHANGED <<input, callVars>>

NextDates == RejectDates \/ CompileDates

SpecDates == InitDates /\ [][NextDates]_vars

\* The year of the anchor date "January 1, 2001"
AnchorYear == 2001

YearLength(y) == IF IsLeap(y) THEN 366 ELSE 365

RECURSIVE DaysOfYears(_, _)
\* The days of the years from..(to - 1)
DaysOfYears(from, to) ==
    IF from >= to THEN 0 ELSE YearLength(from) + DaysOfYears(from + 1, to)

RECURSIVE DaysOfMonths(_, _)
\* The days of the months 1..(m - 1) of year y
DaysOfMonths(y, m) ==
    IF m <= 1 THEN 0 ELSE DaysInMonth(y, m - 1) + DaysOfMonths(y, m - 1)

\* Whole days from 1 January of the anchor year to the day y-m-d, counted day
\* by day; negative before the anchor
DaysFromAnchor(y, m, d) ==
    (IF y >= AnchorYear THEN DaysOfYears(AnchorYear, y) ELSE 0 - DaysOfYears(y, AnchorYear))
    + DaysOfMonths(y, m) + (d - 1)

\* The day a bound names: the first ten characters of its text
DayOf(bound) ==
    [year |-> Number(SubSeq(bound, 1, 4)), month |-> Number(SubSeq(bound, 6, 7)),
     day |-> Number(SubSeq(bound, 9, 10))]

\* Whole seconds from the anchor's midnight to hh:mm:ss of the day a bound names
SecondsFromAnchor(bound, hh, mm, ss) ==
    LET D == DayOf(bound)
    IN DaysFromAnchor(D.year, D.month, D.day) * 86400 + hh * 3600 + mm * 60 + ss

\* The date field a date_type selects
FieldOf(date_type) == IF date_type = CREATED THEN "creation date" ELSE "modification date"

\* C11: a lower bound D compiles to '<field> >= anchor + S' with S the whole
\* seconds from 2001-01-01 00:00:00 to D 00:00:00, an upper bound D to
\* '<field> <= anchor + S2' with S2 the whole seconds to D 23:59:59, for both
\* date fields; for one same day S2 - S = 86399, and for after <= before the
\* lower offset never exceeds the upper one.
C11_BoundsCompileToDayOffsets ==
    output.stage = "compiled" =>
        LET lower == IF input.after = <<>> THEN <<>>
                     ELSE <<[property |-> FieldOf(input.date_type), cmp |-> ">=",
                             secs |-> SecondsFromAnchor(input.after, 0, 0, 0)]>>
            upper == IF input.before = <<>> THEN <<>>
                     ELSE <<[property |-> FieldOf(input.date_type), cmp |-> "<=",
                             secs |-> SecondsFromAnchor(input.before, 23, 59, 59)]>>
        IN /\ output.clause = lower \o upper
           /\ Len(output.clause) = 2 =>
                  /\ SubSeq(input.after, 1, 10) = SubSeq(input.before, 1, 10) =>
                         output.clause[2].secs - output.clause[1].secs = 86399
                  /\ ~StrLess(SubSeq(input.before, 1, 10), SubSeq(input.after, 1, 10)) =>
                         output.clause[1].secs <= output.clause[2].secs

\* A leap day, given with a time of day, was compiled as both bounds of the
\* creation date.
C11_Witness ==
    /\ output.stage = "compiled"
    /\ input.date_type = CREATED
    /\ input.after = IsoDate(2004, 2, 29) \o <<"T", "1", "0", ":", "3", "0", ":", "1", "5">>
    /\ input.before = input.after
    /\ Len(output.clause) = 2
    /\ output.clause[1].secs = 99705600
    /\ output.clause[2].secs = 99791999

\* A search with nothing to search for
EmptySearchTerms(req) ==
    \/ req.op = "find_notes_by_title" /\ AllSpace(req.title)
    \/ req.op = "search_notes" /\
           (req.keywords = <<>> \/ \E i \in 1..Len(req.keywords) : req.keywords[i] = <<>>)

\* C12: empty search terms are rejected with a validation error before any
\* subprocess is launched: find_notes_by_title with an empty or whitespace-only
\* title, and search_notes with no keywords or with an empty keyword, raise
\* ValueError and never reach execute_applescript.
C12_EmptySearchTermsRejected ==
    \A c \in Calls :
        (EmptySearchTerms(request[c]) /\ pc[c] # "called") =>
            /\ pc[c] = "done"
            /\ launches[c] = 0
            /\ process[c].state = "none"
            /\ Len(reply[c]) = 1
            /\ reply[c][1].kind = "ValueError"

----------------------------------------------------------------------------
\* From the host's lines to the records: the lines leave osascript as its
\* standard output, execute_applescript returns them, the operation decodes
\* them.  input is the decoder and the host's well-formed lines, field by
\* field; output is the text returned and the records decoded from it.

NameSamples == {<<"a">>, <<SP, "a">>, <<"a", SP, "b">>}
FolderSamples == {<<"F">>, <<SP, "F", SP>>}
LastFieldSamples == {<<"2">>, <<"2", SP>>}

\* The well-formed lines of a decoder: a name, an identifier, a folder, and
\* the dates or the matched keyword
RecordLines(decoder) ==
    {IF decoder = "search_notes" THEN <<name, Id("1"), folder, last>>
                                 ELSE <<name, Id("1"), folder, <<"1">>, last>> :
        name \in NameSamples, folder \in FolderSamples, last \in LastFieldSamples}

RECURSIVE RecordLineSeqs(_, _)
RecordLineSeqs(decoder, n) ==
    IF n = 0 THEN {<<>>}
    ELSE LET shorter == RecordLineSeqs(decoder, n - 1)
         IN shorter \cup {Append(ls, l) : ls \in shorter, l \in RecordLines(decoder)}

InitFields ==
    /\ InitCalls
    /\ input \in {[decoder |-> d, lines |-> ls] :
                    d \in Decoders, ls \in UNION {RecordLineSeqs(d2, MaxLines) : d2 \in Decoders}}
    /\ \A i \in 1..Len(input.lines) : input.lines[i] \in RecordLines(input.decoder)
    /\ output = [stage |-> "stdout", result |-> <<>>, notes |-> <<>>]

\* base_operations.py line 48: osascript exited with status zero, having
\* written the lines joined by return
ReturnResult ==
    /\ output.stage = "stdout"
    /\ output' = [output EXCEPT !.stage = "result",
                                 !.result = ResultText(ResultOf(input.lines, "CR"))]
    /\ UNCHANGED <<input, callVars>>

\* The operation decodes the result
DecodeResult ==
    /\ output.stage = "result"
    /\ output' = [output EXCEPT !.stage = "decoded",
                                 !.notes = ApplyDecoder(input.decoder, output.result)]
    /\ UNCHANGED <<input, callVars>>

NextFields == ReturnResult \/ DecodeResult

SpecFields == InitFields /\ [][NextFields]_vars

\* C13: the decoders pass field values through unmodified: every well-formed
\* line of the host yields a record, and each decoded name, folder, date and
\* matched keyword is exactly the text the host placed in that position,
\* leading whitespace of the first field and trailing whitespace of the last
\* included.
C13_FieldsPassedThroughUnmodified ==
    output.stage = "decoded" => output.notes = RecordsOf(input.decoder, input.lines)

----------------------------------------------------------------------------
\* execute_applescript under calls in flight together.  Each call is a
\* coroutine of its own: `process` is a local of the call and the module holds
\* no state that a call writes.

\* The number of calls in flight together
NumConcurrent == 2

ConcurrentCalls == 1..NumConcurrent

ConcurrentExits ==
    {[returncode |-> 0, stdout |-> NoteA \o <<LF>>, stderr |-> <<>>],
     [returncode |-> 1, stdout |-> <<>>, stderr |-> Oops]}

InitConcurrent ==
    /\ pc = [c \in ConcurrentCalls |-> "idle"]
    /\ request = [c \in ConcurrentCalls |-> NoRequest]
    /\ process = [c \in ConcurrentCalls |-> NoProcess]
    /\ launches = [c \in ConcurrentCalls |-> 0]
    /\ engine = [c \in ConcurrentCalls |-> <<>>]
    /\ reply = [c \in ConcurrentCalls |-> <<>>]
    /\ input = <<>>
    /\ output = <<>>

NextConcurrent ==
    \E c \in ConcurrentCalls :
        \/ Call(c, [NoRequest EXCEPT !.op = "execute_applescript"])
        \/ Launch(c)
        \/ \E e \in ConcurrentExits : ProcessExits(c, e.returncode, e.stdout, e.stderr)
        \/ Complete(c)
        \/ DeadlineElapses(c)
        \/ Kill(c)
        \/ KilledProcessDies(c, <<>>)
        \/ ReapAndRaise(c)

SpecConcurrent == InitConcurrent /\ [][NextConcurrent]_vars

\* All there is of call c
CallState(c) == <<pc[c], request[c], process[c], launches[c], engine[c], reply[c]>>

\* In every state: a call owns one subprocess from its launch on, a subprocess
\* was sent the kill only by its own call's except block, and the outcome of a
\* finished call is the timeout or what its own subprocess's exit makes.
OwnSubprocessOnly ==
    \A c \in ConcurrentCalls :
        /\ launches[c] = (IF process[c].state = "none" THEN 0 ELSE 1)
        /\ process[c].killed => /\ pc[c] \in {"reap", "done"}
                                /\ pc[c] = "done" => engine[c] = <<ExecuteTimeout>>
        /\ pc[c] = "done" =>
               \/ engine[c] = <<ExecuteTimeout>>
               \/ /\ ~process[c].killed
                  /\ engine[c] = <<ExecuteResult(process[c].returncode, process[c].stdout,
                                                 process[c].stderr)>>

\* In every step: at most one call changes, and a call that finishes does so
\* with the result of its own subprocess if it was awaiting it, with the
\* timeout if its own deadline had elapsed.
OneCallPerStep ==
    /\ \A c \in ConcurrentCalls, d \in ConcurrentCalls :
           (c # d /\ CallState(c)' # CallState(c)) => CallState(d)' = CallState(d)
    /\ \A c \in ConcurrentCalls :
           (pc[c] # "done" /\ pc'[c] = "done") =>
               engine'[c] = <<IF pc[c] = "communicate"
                              THEN ExecuteResult(process[c].returncode, process[c].stdout,
                                                 process[c].stderr)
                              ELSE ExecuteTimeout>>

\* C14: concurrent calls of execute_applescript are independent: under every
\* interleaving of the calls in flight each call owns its own subprocess, a
\* timeout in one call kills only that call's subprocess, and each call's
\* outcome is determined by its own subprocess's exit status, output and
\* deadline alone.
C14_ConcurrentCallsIndependent == []OwnSubprocessOnly /\ [][OneCallPerStep]_vars

\* One call has timed out and its subprocess was killed, while the subprocess
\* of another call, launched before, goes on unharmed.
C14_Witness ==
    \E c \in ConcurrentCalls, d \in ConcurrentCalls :
        /\ c # d
        /\ engine[c] = <<ExecuteTimeout>>
        /\ process[c].killed
        /\ pc[d] = "communicate"
        /\ process[d].state = "running"
        /\ ~process[d].killed

----------------------------------------------------------------------------
\* The compiled scripts on the host: a script either completes through its
\* normal path and returns the record lines of the notes it enumerated, or
\* traps an error and returns "error:" and a message.  input is the
\* operation, the path the script takes and the notes enumerated, by name;
\* output is what osascript wrote and what the operation made of it.

NoteNameSamples == {<<"a">>, <<"e", "r", "r">>, ERROR_SENTINEL \o <<"a">>}

ScriptPaths == {"normal", "trapped"}

RECURSIVE NameSeqs(_)
NameSeqs(n) ==
    IF n = 0 THEN {<<>>}
    ELSE LET shorter == NameSeqs(n - 1)
         IN shorter \cup {Append(ns, name) : ns \in shorter, name \in NoteNameSamples}

\* The line the script of an operation emits for its i-th note
HostLine(op, name, i) ==
    IF op = "search_notes"
    THEN Join(<<name, Id(Digits[i + 1]), <<"F">>, <<"k">>>>, DELIM)
    ELSE Join(<<name, Id(Digits[i + 1]), <<"F">>, <<"1">>, <<Digits[i + 1]>>>>, DELIM)

\* What the script returns: outputText on the normal path, the sentinel and
\* the message on the error path
HostOutput(op, path, names) ==
    IF path = "trapped" THEN HostError
    ELSE Join([i \in 1..Len(names) |-> HostLine(op, names[i], i)], <<CR>>)

\* A call of the operation that passes its validation
HostRequest(op) ==
    [NoRequest EXCEPT !.op = op, !.date_type = MODIFIED,
                      !.after = IsoDate(2024, 1, 15), !.title = <<"a">>,
                      !.keywords = << <<"k">> >>]

InitHost ==
    /\ InitCalls
    /\ input \in [op : Decoders, path : ScriptPaths, names : NameSeqs(MaxLines)]
    /\ output = [stage |-> "script", stdout |-> <<>>, outcome |-> Outcome("none", <<>>, <<>>)]

\* osascript runs the script and exits with status zero
HostRuns ==
    /\ output.stage = "script"
    /\ output' = [output EXCEPT !.stage = "stdout",
                                 !.stdout = HostOutput(input.op, input.path, input.names) \o <<LF>>]
    /\ UNCHANGED <<input, callVars>>

\* execute_applescript returns the output and the operation inspects and
\* decodes it
OperationReturns ==
    /\ output.stage = "stdout"
    /\ output' = [output EXCEPT !.stage = "done",
                                 !.outcome = OperationResult(HostRequest(input.op),
                                                 ExecuteResult(0, output.stdout, <<>>))]
    /\ UNCHANGED <<input, callVars>>

NextHost == HostRuns \/ OperationReturns

SpecHost == InitHost /\ [][NextHost]_vars

\* C15: list_all_notes, find_notes_by_title, find_notes_by_date and
\* search_notes raise the host failure only when the script took its
\* error-trapping path: whenever the script completed through its normal path
\* the operation returns the records, one per note, whatever the name of the
\* first note, a name that begins with 'error:' included.
C15_HostFailureOnlyWhenTrapped ==
    (output.stage = "done" /\ input.path = "normal") =>
        /\ output.outcome.kind = "return"
        /\ Len(output.outcome.notes) = Len(input.names)

====
